---- MODULE Spec2Model ----
(***************************************************************************)
(* pacman-blame: the listing engine (src/src/listing.rs), the query        *)
(* parser (src/src/query.rs) and the format compiler (src/src/output.rs).  *)
(*                                                                         *)
(* Strings are sequences of bytes.  An ASCII byte is written as the        *)
(* one-character string of its character; the two bytes of the UTF-8       *)
(* encoding of U+00E9 are written "C3" and "A9".                           *)
(***************************************************************************)
EXTENDS Integers, Sequences, FiniteSets, TLC

VARIABLES
    opts,             \* ListOptions {queries, explicit, dependency, required_by}
    common,           \* CommonOptions {color, format}
    db,               \* the local package database: name -> record
    pc,               \* position of the running call
    caller,           \* who called find_required_by: "list_packages" or "none"
    compiled_format,  \* list_packages: compiled_format
    filter,           \* list_packages: filter
    parsed,           \* list_packages: queries after Query::parse
    pkgs,             \* list_packages: resolved records not yet visited
    lines,            \* list_packages: lines
    result,           \* list_packages: the value returned
    target,           \* find_required_by: pkg
    reason_filter,    \* find_required_by: reason_filter
    queue,            \* find_required_by: queue
    required_by,      \* find_required_by: required_by
    reqby,            \* find_required_by: names of `reqby` not yet visited
    frb_ret,          \* find_required_by: the value returned
    stdout,           \* what println! wrote, one entry per call
    stderr,           \* what eprintln! wrote, one entry per call
    db_ops,           \* number of calls into the database so far
    expanded,         \* find_required_by: the records popped so far, in order
    cf_text,          \* CompiledFormat::compile: text
    cf_start,         \* CompiledFormat::compile: start
    cf_end,           \* CompiledFormat::compile: end
    cf_parts,         \* CompiledFormat::compile: format_parts
    compile_ret,      \* CompiledFormat::compile: how the call ended
    cf_pkg,           \* CompiledFormat::display: pkg
    output,           \* CompiledFormat::display: the string returned
    raw,              \* Query::parse: query
    parse_ret,        \* Query::parse: the value returned
    calls,            \* ReasonSelector: the calls of filter and test made
    parsed_args,      \* main: what argparse::parse_args returned
    handle,           \* main: what Alpm::new returned
    exit_code         \* main: the ExitCode returned

vars == <<opts, common, db, pc, caller, compiled_format, filter, parsed, pkgs,
          lines, result, target, reason_filter, queue, required_by, reqby,
          frb_ret, stdout, stderr, db_ops, expanded, cf_text, cf_start, cf_end,
          cf_parts, compile_ret, cf_pkg, output, raw, parse_ret, calls, parsed_args,
          handle, exit_code>>

lp_vars  == <<compiled_format, filter, parsed, pkgs, lines, result>>
frb_vars == <<target, reason_filter, queue, required_by, reqby, frb_ret,
              expanded>>
cf_vars  == <<cf_text, cf_start, cf_end, cf_parts, compile_ret, cf_pkg, output>>
qp_vars  == <<raw, parse_ret>>
main_vars == <<parsed_args, handle, exit_code>>

\* what list_packages and find_required_by leave alone
rest_vars == <<cf_vars, qp_vars, calls, main_vars>>

----------------------------------------------------------------------------
(* Bounds *)

\* longest direct-dependents list of a package (find_required_by runs)
MaxDeps == 2
\* longest direct-dependents list of a package (list_packages runs)
MaxListDeps == 1
\* most query strings on the command line
MaxQueries == 2

----------------------------------------------------------------------------
(* Generic helpers *)

None == [some |-> FALSE]
Some(v) == [some |-> TRUE, val |-> v]

RECURSIVE Concat(_)
Concat(ss) == IF ss = <<>> THEN <<>> ELSE Head(ss) \o Concat(Tail(ss))

\* [String]::join
RECURSIVE Join(_, _)
Join(ss, sep) ==
    IF ss = <<>> THEN <<>>
    ELSE IF Len(ss) = 1 THEN ss[1]
    ELSE ss[1] \o sep \o Join(Tail(ss), sep)

StartsWith(s, p) == Len(s) >= Len(p) /\ SubSeq(s, 1, Len(p)) = p
EndsWith(s, p) == Len(s) >= Len(p) /\ SubSeq(s, Len(s) - Len(p) + 1, Len(s)) = p

----------------------------------------------------------------------------
(* src/src/query.rs *)

\* ParseError
InvalidProperty(prop) == [tag |-> "InvalidProperty", arg |-> prop]
SyntaxError == [tag |-> "SyntaxError", arg |-> <<>>]

\* Query
PackageName(name) == [tag |-> "PackageName", name |-> name]

Ok(v) == [ok |-> TRUE, val |-> v]
Err(e) == [ok |-> FALSE, err |-> e]

\* char::is_whitespace, on the bytes used here
Whitespace == {" ", "\t", "\n"}

\* str::trim
RECURSIVE TrimStart(_)
TrimStart(s) ==
    IF s # <<>> /\ Head(s) \in Whitespace THEN TrimStart(Tail(s)) ELSE s

RECURSIVE TrimEnd(_)
TrimEnd(s) ==
    IF s # <<>> /\ s[Len(s)] \in Whitespace
    THEN TrimEnd(SubSeq(s, 1, Len(s) - 1)) ELSE s

Trim(s) == TrimEnd(TrimStart(s))

\* SplitOnce splitting at the last colon (rsplit_once)
SplitOnce_Last(s) ==
    IF \E i \in 1..Len(s) : s[i] = ":"
    THEN LET i == CHOOSE k \in 1..Len(s) :
                      s[k] = ":" /\ \A j \in (k + 1)..Len(s) : s[j] # ":"
         IN Some(<<SubSeq(s, 1, i - 1), SubSeq(s, i + 1, Len(s))>>)
    ELSE None

\* str::split_once(":")
SplitOnce(s) ==
    IF \E i \in 1..Len(s) : s[i] = ":"
    THEN LET i == CHOOSE k \in 1..Len(s) :
                      s[k] = ":" /\ \A j \in 1..(k - 1) : s[j] # ":"
         IN Some(<<SubSeq(s, 1, i - 1), SubSeq(s, i + 1, Len(s))>>)
    ELSE None

\* Query::parse
QueryParse(query) ==
    LET split == SplitOnce(query) IN
    IF ~split.some THEN Ok(PackageName(query))
    ELSE LET prop == split.val[1]
             value == split.val[2]
         IN IF prop = <<"p", "a", "c", "k", "a", "g", "e">>
            THEN Ok(PackageName(value))
            ELSE IF Trim(prop) # prop THEN Err(SyntaxError)
            ELSE Err(InvalidProperty(prop))

----------------------------------------------------------------------------
(* src/src/output.rs *)

\* Format
Text(s) == [op |-> "Text", text |-> s]
FormatName == [op |-> "Name", text |-> <<>>]
FormatSummary == [op |-> "Summary", text |-> <<>>]
FormatReason == [op |-> "Reason", text |-> <<>>]
FormatVersion == [op |-> "Version", text |-> <<>>]

\* ParseStatus
Invalid == [status |-> "Invalid", form |-> Text(<<>>)]
NeedMore == [status |-> "NeedMore", form |-> Text(<<>>)]
Correct(form) == [status |-> "Correct", form |-> form]

\* Format::parse_token_slice
ParseTokenSlice(tokens) ==
    CASE tokens = <<>> -> NeedMore
      [] tokens = <<"%">> -> NeedMore
      [] tokens = <<"%", "%">> -> Correct(Text(SubSeq(tokens, 1, 1)))
      [] tokens \in {<<"%", "n">>, <<"%", "{", "n", "}">>} -> Correct(FormatName)
      [] tokens \in {<<"%", "s">>, <<"%", "{", "s", "}">>} -> Correct(FormatSummary)
      [] tokens \in {<<"%", "r">>, <<"%", "{", "r", "}">>} -> Correct(FormatReason)
      [] tokens \in {<<"%", "v">>, <<"%", "{", "v", "}">>} -> Correct(FormatVersion)
      [] tokens = <<"%", "{">> -> NeedMore
      [] OTHER ->
            IF StartsWith(tokens, <<"%", "{">>)
            THEN (IF EndsWith(tokens, <<"}">>) THEN Invalid ELSE NeedMore)
            ELSE IF StartsWith(tokens, <<"%">>) THEN Invalid
            ELSE Correct(Text(tokens))

\* the bytes 0x80..0xBF: never the first byte of a character
ContinuationBytes == {"A9"}

\* str::is_char_boundary, index counted in bytes from 0
IsCharBoundary(text, index) ==
    \/ index = 0
    \/ index = Len(text)
    \/ index < Len(text) /\ text[index + 1] \notin ContinuationBytes

\* what CompiledFormat::compile ends with (Running: it has not ended)
Running == [outcome |-> "Running", parts |-> <<>>]
Compiled(parts) == [outcome |-> "Some", parts |-> parts]
CompileNone == [outcome |-> "None", parts |-> <<>>]
CompilePanic == [outcome |-> "Panic", parts |-> <<>>]

\* CompiledFormat::compile, the loop from the state (start, end, format_parts)
RECURSIVE CompileLoop(_, _, _, _)
CompileLoop(text, start, end, format_parts) ==
    IF ~(start < Len(text)) THEN Compiled(format_parts)
    ELSE IF ~(IsCharBoundary(text, start) /\ IsCharBoundary(text, end))
         THEN CompilePanic
    ELSE LET chunk == SubSeq(text, start + 1, end)
             st == ParseTokenSlice(chunk)
         IN CASE st.status = "NeedMore" ->
                    IF end + 1 > Len(text) THEN CompileNone
                    ELSE CompileLoop(text, start, end + 1, format_parts)
              [] st.status = "Invalid" -> CompileNone
              [] st.status = "Correct" ->
                    CompileLoop(text, end, end + 1, Append(format_parts, st.form))

\* CompiledFormat::compile
Compile(text) == CompileLoop(text, 0, 0, <<>>)

\* CompiledFormat::default
DefaultFormat == <<FormatName>>

----------------------------------------------------------------------------
(* The package database (alpm), as list_packages and find_required_by see it *)

\* package names that occur anywhere
Names == {<<"a">>, <<"b">>, <<"c">>}

\* alpm::PackageReason
PackageReason == {"Explicit", "Depend"}

\* sequences over S without repetition, of length at most n
DepLists(S, n) ==
    {s \in UNION {[1..k -> S] : k \in 0..n} :
        \A i, j \in 1..Len(s) : s[i] = s[j] => i = j}

\* the databases over the names `universe`: any subset of them is installed,
\* each installed package with at most n direct dependents drawn from
\* `universe` (a dependent need not be installed: its lookup then fails)
Databases(universe, n) ==
    UNION {[S -> [reason : PackageReason, required_by : DepLists(universe, n)]] :
              S \in SUBSET universe}

\* Pkg::name, Pkg::version, Pkg::desc
PkgName(name) == name
PkgVersion(name) == <<"1", ".", "0">>
PkgDesc(name) == IF name = <<"a">> THEN Some(<<"d">>) ELSE None

\* Db::pkg: lookup by name
DbPkg(d, name) == IF name \in DOMAIN d THEN Ok(name) ELSE Err("PkgNotFound")

\* Db::pkgs: every installed package, in the database's (name) order
DbPkgs(d) ==
    LET order == <<(<<"a">>), (<<"b">>), (<<"c">>)>>
    IN SelectSeq(order, LAMBDA n : n \in DOMAIN d)

----------------------------------------------------------------------------
(* src/src/listing.rs: ReasonSelector, ReqByItem *)

ReasonSelector == {"Both", "Explicit", "Depend"}

\* ReasonSelector::filter
ReasonSelectorFilter(self, reason) ==
    CASE self = "Both" -> Some(reason)
      [] self = "Explicit" /\ reason = "Explicit" -> Some(reason)
      [] self = "Depend" /\ reason = "Depend" -> Some(reason)
      [] OTHER -> None

\* ReqByItem
ReqByItem(reason, name) == [tag |-> reason, name |-> name]

\* <ReqByItem as Reason>::is_explicit
IsExplicit(r) == r.tag = "Explicit"

\* ReasonSelector::test
ReasonSelectorTest(self, r) ==
    (self = "Both") \/ ((self = "Explicit") = IsExplicit(r))

\* ReasonSelectorNew looking at `explicit` first
ReasonSelectorNew_ExplicitWins(explicit, dependency) ==
    CASE explicit -> "Explicit"
      [] ~explicit /\ dependency -> "Depend"
      [] OTHER -> "Both"

\* ReasonSelector::new
ReasonSelectorNew(explicit, dependency) ==
    CASE explicit /\ ~dependency -> "Explicit"
      [] ~explicit /\ dependency -> "Depend"
      [] OTHER -> "Both"

\* ReqByItem::draw
Draw(self, color) ==
    IF self.tag = "Explicit" /\ color
    THEN <<"ESC", "[", "3", "3", "m">> \o self.name \o <<"ESC", "[", "m">>
    ELSE self.name

\* Contains looking at the last element only
Contains_LastOnly(v, x) == v # <<>> /\ v[Len(v)] = x

\* Vec::contains
Contains(v, x) == \E i \in 1..Len(v) : v[i] = x

\* PopFront reading the front without removing it (front() for pop_front())
PopFront_Keeps(q) == q

\* VecDeque::pop_front: what is left of the queue
PopFront(q) == Tail(q)

\* Display emitting the fields only, no Text part
Display_DropsText(parts, d, pkg) ==
    LET part(f) ==
            CASE f.op = "Text" -> <<>>
              [] f.op = "Name" -> PkgName(pkg)
              [] f.op = "Summary" ->
                    (IF PkgDesc(pkg).some THEN PkgDesc(pkg).val ELSE <<>>)
              [] f.op = "Reason" ->
                    (IF d[pkg].reason = "Explicit"
                     THEN <<"E", "x", "p", "l", "i", "c", "i", "t">>
                     ELSE <<"D", "e", "p", "e", "n", "d">>)
              [] f.op = "Version" -> PkgVersion(pkg)
    IN Concat([i \in 1..Len(parts) |-> part(parts[i])])

\* CompiledFormat::display (src/src/output.rs)
Display(parts, d, pkg) ==
    LET part(f) ==
            CASE f.op = "Text" -> f.text
              [] f.op = "Name" -> PkgName(pkg)
              [] f.op = "Summary" ->
                    (IF PkgDesc(pkg).some THEN PkgDesc(pkg).val ELSE <<>>)
              [] f.op = "Reason" ->
                    (IF d[pkg].reason = "Explicit"
                     THEN <<"E", "x", "p", "l", "i", "c", "i", "t">>
                     ELSE <<"D", "e", "p", "e", "n", "d">>)
              [] f.op = "Version" -> PkgVersion(pkg)
    IN Concat([i \in 1..Len(parts) |-> part(parts[i])])

----------------------------------------------------------------------------
(* src/src/listing.rs: find_required_by *)

\* the eprintln! of a failed lookup
FetchDiagnostic(name) == <<"failed to fetch info for ", name>>

\* where the for loop over `reqby` goes once `rest` is what remains of it
AfterName(rest) == IF rest = <<>> THEN "frb_while" ELSE "frb_for"

\* FrbPop walking the dependents list from its end
FrbPop_Reversed ==
    /\ pc = "frb_while"
    /\ queue # <<>>
    /\ LET next == Head(queue)
           list == db[next].required_by
       IN /\ queue' = PopFront(queue)
          /\ reqby' = [i \in 1..Len(list) |-> list[Len(list) + 1 - i]]
          /\ pc' = AfterName(list)
    /\ db_ops' = db_ops + 1
    /\ expanded' = Append(expanded, Head(queue))
    /\ UNCHANGED rest_vars
    /\ UNCHANGED <<opts, common, db, caller, lp_vars, target, reason_filter,
                   required_by, frb_ret, stdout, stderr>>

\* while !queue.is_empty(): pop the front record, read its dependents
FrbPop ==
    /\ pc = "frb_while"
    /\ queue # <<>>
    /\ LET next == Head(queue)
           list == db[next].required_by
       IN /\ queue' = PopFront(queue)
          /\ reqby' = list
          /\ pc' = AfterName(list)
    /\ db_ops' = db_ops + 1
    /\ expanded' = Append(expanded, Head(queue))
    /\ UNCHANGED rest_vars
    /\ UNCHANGED <<opts, common, db, caller, lp_vars, target, reason_filter,
                   required_by, frb_ret, stdout, stderr>>

\* FrbLookupFailed leaving the for loop (break for continue)
FrbLookupFailed_Breaks ==
    /\ pc = "frb_for"
    /\ reqby # <<>>
    /\ LET name == Head(reqby) IN
       /\ ~DbPkg(db, name).ok
       /\ stderr' = Append(stderr, FetchDiagnostic(name))
    /\ reqby' = <<>>
    /\ pc' = "frb_while"
    /\ db_ops' = db_ops + 1
    /\ UNCHANGED expanded
    /\ UNCHANGED rest_vars
    /\ UNCHANGED <<opts, common, db, caller, lp_vars, target, reason_filter,
                   queue, required_by, frb_ret, stdout>>

\* for name in reqby: db.pkg(name) fails
FrbLookupFailed ==
    /\ pc = "frb_for"
    /\ reqby # <<>>
    /\ LET name == Head(reqby) IN
       /\ ~DbPkg(db, name).ok
       /\ stderr' = Append(stderr, FetchDiagnostic(name))
    /\ reqby' = Tail(reqby)
    /\ pc' = AfterName(Tail(reqby))
    /\ db_ops' = db_ops + 1
    /\ UNCHANGED expanded
    /\ UNCHANGED rest_vars
    /\ UNCHANGED <<opts, common, db, caller, lp_vars, target, reason_filter,
                   queue, required_by, frb_ret, stdout>>

\* the item a found dependent becomes
ItemOf(d, name) == ReqByItem(d[name].reason, name)

\* FrbSeen putting the record of a dependent already listed on the queue again
FrbSeen_Requeues ==
    /\ pc = "frb_for"
    /\ reqby # <<>>
    /\ LET name == Head(reqby) IN
       /\ DbPkg(db, name).ok
       /\ Contains(required_by, ItemOf(db, name))
       /\ queue' = Append(queue, DbPkg(db, name).val)
    /\ reqby' = Tail(reqby)
    /\ pc' = AfterName(Tail(reqby))
    /\ db_ops' = db_ops + 1
    /\ UNCHANGED expanded
    /\ UNCHANGED rest_vars
    /\ UNCHANGED <<opts, common, db, caller, lp_vars, target, reason_filter,
                   required_by, frb_ret, stdout, stderr>>

\* for name in reqby: found, and required_by.contains(&req)
FrbSeen ==
    /\ pc = "frb_for"
    /\ reqby # <<>>
    /\ LET name == Head(reqby) IN
       /\ DbPkg(db, name).ok
       /\ Contains(required_by, ItemOf(db, name))
    /\ reqby' = Tail(reqby)
    /\ pc' = AfterName(Tail(reqby))
    /\ db_ops' = db_ops + 1
    /\ UNCHANGED expanded
    /\ UNCHANGED rest_vars
    /\ UNCHANGED <<opts, common, db, caller, lp_vars, target, reason_filter,
                   queue, required_by, frb_ret, stdout, stderr>>

\* FrbPush enqueuing only the records the selector accepts
FrbPush_Prunes ==
    /\ pc = "frb_for"
    /\ reqby # <<>>
    /\ LET name == Head(reqby) IN
       /\ DbPkg(db, name).ok
       /\ ~Contains(required_by, ItemOf(db, name))
       /\ required_by' = Append(required_by, ItemOf(db, name))
       /\ queue' = IF ReasonSelectorTest(reason_filter, ItemOf(db, name))
                   THEN Append(queue, DbPkg(db, name).val)
                   ELSE queue
    /\ reqby' = Tail(reqby)
    /\ pc' = AfterName(Tail(reqby))
    /\ db_ops' = db_ops + 1
    /\ UNCHANGED expanded
    /\ UNCHANGED rest_vars
    /\ UNCHANGED <<opts, common, db, caller, lp_vars, target, reason_filter,
                   frb_ret, stdout, stderr>>

\* FrbPush passing over the target when it turns up in a dependents list
FrbPush_SkipsTarget ==
    /\ pc = "frb_for"
    /\ reqby # <<>>
    /\ LET name == Head(reqby) IN
       /\ DbPkg(db, name).ok
       /\ ~Contains(required_by, ItemOf(db, name))
       /\ required_by' = IF name = target THEN required_by
                         ELSE Append(required_by, ItemOf(db, name))
       /\ queue' = IF name = target THEN queue
                   ELSE Append(queue, DbPkg(db, name).val)
    /\ reqby' = Tail(reqby)
    /\ pc' = AfterName(Tail(reqby))
    /\ db_ops' = db_ops + 1
    /\ UNCHANGED expanded
    /\ UNCHANGED rest_vars
    /\ UNCHANGED <<opts, common, db, caller, lp_vars, target, reason_filter,
                   frb_ret, stdout, stderr>>

\* for name in reqby: found and new: push the item, enqueue the record
FrbPush ==
    /\ pc = "frb_for"
    /\ reqby # <<>>
    /\ LET name == Head(reqby) IN
       /\ DbPkg(db, name).ok
       /\ ~Contains(required_by, ItemOf(db, name))
       /\ required_by' = Append(required_by, ItemOf(db, name))
       /\ queue' = Append(queue, DbPkg(db, name).val)
    /\ reqby' = Tail(reqby)
    /\ pc' = AfterName(Tail(reqby))
    /\ db_ops' = db_ops + 1
    /\ UNCHANGED expanded
    /\ UNCHANGED rest_vars
    /\ UNCHANGED <<opts, common, db, caller, lp_vars, target, reason_filter,
                   frb_ret, stdout, stderr>>

\* required_by.into_iter().filter(|r| reason_filter.test(r)).collect()
FilterItems(items, selector) ==
    SelectSeq(items, LAMBDA r : ReasonSelectorTest(selector, r))

\* the queue is empty: filter and return
FrbReturn ==
    /\ pc = "frb_while"
    /\ queue = <<>>
    /\ frb_ret' = FilterItems(required_by, reason_filter)
    /\ pc' = IF caller = "list_packages" THEN "lp_reqby" ELSE "done"
    /\ UNCHANGED expanded
    /\ UNCHANGED rest_vars
    /\ UNCHANGED <<opts, common, db, caller, lp_vars, target, reason_filter,
                   queue, required_by, reqby, stdout, stderr, db_ops>>

FrbNext == FrbPop \/ FrbLookupFailed \/ FrbSeen \/ FrbPush \/ FrbReturn

\* no package: the value of `target` outside a call of find_required_by
NoPkg == <<>>

\* options of a call that is not under way
NoOpts == [queries |-> <<>>, explicit |-> FALSE, dependency |-> FALSE,
           required_by |-> FALSE]
NoCommon == [color |-> FALSE, format |-> None]
Pending == [ok |-> FALSE, err |-> [tag |-> "Pending", arg |-> <<>>]]

\* no exit code: main has not returned
NoExit == [some |-> FALSE]

\* the variables of the calls that are not under way
RestIdle ==
    /\ cf_text = <<>>
    /\ cf_start = 0
    /\ cf_end = 0
    /\ cf_parts = <<>>
    /\ compile_ret = Running
    /\ cf_pkg = NoPkg
    /\ output = <<>>
    /\ raw = <<>>
    /\ parse_ret = Pending
    /\ calls = <<>>
    /\ parsed_args = Pending
    /\ handle = "none"
    /\ exit_code = NoExit

\* find_required_by(db, pkg, reason_filter) right after its two `let`s
FrbInit ==
    /\ db \in Databases(Names, MaxDeps)
    /\ target \in DOMAIN db
    /\ reason_filter \in ReasonSelector
    /\ queue = <<target>>
    /\ required_by = <<>>
    /\ reqby = <<>>
    /\ frb_ret = <<>>
    /\ expanded = <<>>
    /\ pc = "frb_while"
    /\ caller = "none"
    /\ opts = NoOpts
    /\ common = NoCommon
    /\ compiled_format = <<>>
    /\ filter = "Both"
    /\ parsed = <<>>
    /\ pkgs = <<>>
    /\ lines = <<>>
    /\ result = Pending
    /\ stdout = <<>>
    /\ stderr = <<>>
    /\ db_ops = 0
    /\ RestIdle

\* find_required_by on its own
FrbSpec == FrbInit /\ [][FrbNext]_vars

\* the call is sequential code: it keeps running until it returns
FrbFairSpec == FrbSpec /\ WF_vars(FrbNext)

----------------------------------------------------------------------------
(* src/src/main.rs: ProgramError *)

NoPackagesFound == [tag |-> "NoPackagesFound", arg |-> <<>>]
InvalidFormat(format) == [tag |-> "InvalidFormat", arg |-> format]
InvalidRequest(explination) == [tag |-> "InvalidRequest", arg |-> explination]
\* From<query::ParseError> for ProgramError
InvalidQuery(parse_error) == [tag |-> "InvalidQuery", arg |-> parse_error]

----------------------------------------------------------------------------
(* src/src/listing.rs: list_packages *)

\* the text of the InvalidRequest error
RequiredByWithoutPackages ==
    "you cannot use --required-by without specifying packages"

\* CollectResults keeping the last error instead of the first
CollectResults_LastError(rs) ==
    IF \A i \in 1..Len(rs) : rs[i].ok
    THEN Ok([i \in 1..Len(rs) |-> rs[i].val])
    ELSE LET i == CHOOSE k \in 1..Len(rs) :
                      ~rs[k].ok /\ \A j \in (k + 1)..Len(rs) : rs[j].ok
         IN Err(rs[i].err)

\* collect::<Result<Vec<_>, _>>(): the values, or the first error in order
CollectResults(rs) ==
    IF \A i \in 1..Len(rs) : rs[i].ok
    THEN Ok([i \in 1..Len(rs) |-> rs[i].val])
    ELSE LET i == CHOOSE k \in 1..Len(rs) :
                      ~rs[k].ok /\ \A j \in 1..(k - 1) : rs[j].ok
         IN Err(rs[i].err)

\* ResolveQueries giving up on every query once one name is not found
ResolveQueries_AllOrNothing(d, qs) ==
    IF \A i \in 1..Len(qs) : DbPkg(d, qs[i].name).ok
    THEN [i \in 1..Len(qs) |-> DbPkg(d, qs[i].name).val]
    ELSE <<>>

\* filter_map(|q| local.pkg(name).ok()).collect()
RECURSIVE ResolveQueries(_, _)
ResolveQueries(d, qs) ==
    IF qs = <<>> THEN <<>>
    ELSE LET found == DbPkg(d, Head(qs).name)
         IN (IF found.ok THEN <<found.val>> ELSE <<>>)
                \o ResolveQueries(d, Tail(qs))

\* LpCompile falling back to the default format when compile returns None
LpCompile_FallsBack ==
    /\ pc = "lp_compile"
    /\ LET c == IF common.format.some THEN Compile(common.format.val)
                ELSE Compiled(DefaultFormat)
       IN IF c.outcome = "Panic"
          THEN /\ pc' = "panic"
               /\ UNCHANGED compiled_format
          ELSE /\ compiled_format' =
                      (IF c.outcome = "Some" THEN c.parts ELSE DefaultFormat)
               /\ pc' = "lp_validate"
    /\ UNCHANGED rest_vars
    /\ UNCHANGED <<opts, common, db, caller, filter, parsed, pkgs, lines,
                   result, frb_vars, stdout, stderr, db_ops>>

\* let compiled_format = match &format { ... }
LpCompile ==
    /\ pc = "lp_compile"
    /\ IF common.format.some
       THEN LET f == common.format.val
                c == Compile(f)
            IN CASE c.outcome = "Some" ->
                       /\ compiled_format' = c.parts
                       /\ pc' = "lp_validate"
                       /\ UNCHANGED result
                 [] c.outcome = "None" ->
                       /\ result' = Err(InvalidFormat(f))
                       /\ pc' = "done"
                       /\ UNCHANGED compiled_format
                 [] c.outcome = "Panic" ->
                       /\ pc' = "panic"
                       /\ UNCHANGED <<compiled_format, result>>
       ELSE /\ compiled_format' = DefaultFormat
            /\ pc' = "lp_validate"
            /\ UNCHANGED result
    /\ UNCHANGED rest_vars
    /\ UNCHANGED <<opts, common, db, caller, filter, parsed, pkgs, lines,
                   frb_vars, stdout, stderr, db_ops>>

\* LpValidate without its check: every request goes on to the parse step
LpValidate_NoCheck ==
    /\ pc = "lp_validate"
    /\ pc' = "lp_parse"
    /\ UNCHANGED rest_vars
    /\ UNCHANGED <<opts, common, db, caller, compiled_format, filter, parsed,
                   pkgs, lines, result, frb_vars, stdout, stderr, db_ops>>

\* if number_queries == 0 && required_by { return Err(InvalidRequest) }
LpValidate ==
    /\ pc = "lp_validate"
    /\ IF Len(opts.queries) = 0 /\ opts.required_by
       THEN /\ result' = Err(InvalidRequest(RequiredByWithoutPackages))
            /\ pc' = "done"
       ELSE /\ pc' = "lp_parse"
            /\ UNCHANGED result
    /\ UNCHANGED rest_vars
    /\ UNCHANGED <<opts, common, db, caller, compiled_format, filter, parsed,
                   pkgs, lines, frb_vars, stdout, stderr, db_ops>>

\* let filter = ReasonSelector::new(..); let queries = ..map(Query::parse)..?
LpParse ==
    /\ pc = "lp_parse"
    /\ filter' = ReasonSelectorNew(opts.explicit, opts.dependency)
    /\ LET r == CollectResults([i \in 1..Len(opts.queries) |->
                                    QueryParse(opts.queries[i])]) IN
       IF r.ok
       THEN /\ parsed' = r.val
            /\ pc' = "lp_resolve"
            /\ UNCHANGED result
       ELSE /\ result' = Err(InvalidQuery(r.err))
            /\ pc' = "done"
            /\ UNCHANGED parsed
    /\ UNCHANGED rest_vars
    /\ UNCHANGED <<opts, common, db, caller, compiled_format, pkgs, lines,
                   frb_vars, stdout, stderr, db_ops>>

\* let local = handle.localdb(); let pkgs = ..; if pkgs.is_empty() { return .. }
LpResolve ==
    /\ pc = "lp_resolve"
    /\ LET found == IF parsed = <<>> THEN DbPkgs(db)
                    ELSE ResolveQueries(db, parsed)
       IN /\ db_ops' = db_ops + 1 + (IF parsed = <<>> THEN 1 ELSE Len(parsed))
          /\ IF found = <<>>
             THEN /\ result' = Err(NoPackagesFound)
                  /\ pc' = "done"
                  /\ UNCHANGED <<pkgs, lines>>
             ELSE /\ pkgs' = found
                  /\ lines' = <<>>
                  /\ pc' = "lp_for"
                  /\ UNCHANGED result
    /\ UNCHANGED rest_vars
    /\ UNCHANGED <<opts, common, db, caller, compiled_format, filter, parsed,
                   frb_vars, stdout, stderr>>

\* LpVisit printing each line as soon as it is rendered
LpVisit_PrintsAtOnce ==
    /\ pc = "lp_for"
    /\ pkgs # <<>>
    /\ ~opts.required_by
    /\ LET pkg == Head(pkgs) IN
       stdout' = IF ReasonSelectorFilter(filter, db[pkg].reason).some
                 THEN Append(stdout, Display(compiled_format, db, pkg))
                 ELSE stdout
    /\ pkgs' = Tail(pkgs)
    /\ UNCHANGED rest_vars
    /\ UNCHANGED <<opts, common, db, pc, caller, compiled_format, filter,
                   parsed, lines, result, frb_vars, stderr, db_ops>>

\* LpVisit pushing a line for every package, whatever its install reason
LpVisit_NoFilter ==
    /\ pc = "lp_for"
    /\ pkgs # <<>>
    /\ ~opts.required_by
    /\ lines' = Append(lines, Display(compiled_format, db, Head(pkgs)))
    /\ pkgs' = Tail(pkgs)
    /\ UNCHANGED rest_vars
    /\ UNCHANGED <<opts, common, db, pc, caller, compiled_format, filter,
                   parsed, result, frb_vars, stdout, stderr, db_ops>>

\* for pkg in pkgs: direct listing
LpVisit ==
    /\ pc = "lp_for"
    /\ pkgs # <<>>
    /\ ~opts.required_by
    /\ LET pkg == Head(pkgs) IN
       lines' = IF ReasonSelectorFilter(filter, db[pkg].reason).some
                THEN Append(lines, Display(compiled_format, db, pkg))
                ELSE lines
    /\ pkgs' = Tail(pkgs)
    /\ UNCHANGED rest_vars
    /\ UNCHANGED <<opts, common, db, pc, caller, compiled_format, filter,
                   parsed, result, frb_vars, stdout, stderr, db_ops>>

\* for pkg in pkgs: required_by is set, call find_required_by(local, pkg, filter)
LpCallFindRequiredBy ==
    /\ pc = "lp_for"
    /\ pkgs # <<>>
    /\ opts.required_by
    /\ target' = Head(pkgs)
    /\ reason_filter' = filter
    /\ queue' = <<Head(pkgs)>>
    /\ required_by' = <<>>
    /\ pc' = "frb_while"
    /\ expanded' = <<>>
    /\ UNCHANGED rest_vars
    /\ UNCHANGED <<opts, common, db, caller, lp_vars, reqby, frb_ret, stdout,
                   stderr, db_ops>>

\* LpRequiredByLine pushing the line also when no item is left
LpRequiredByLine_EmptyLine ==
    /\ pc = "lp_reqby"
    /\ LET drawn == [i \in 1..Len(frb_ret) |-> Draw(frb_ret[i], common.color)]
       IN lines' = Append(lines, Join(drawn, <<" ">>))
    /\ pkgs' = Tail(pkgs)
    /\ required_by' = <<>>
    /\ frb_ret' = <<>>
    /\ pc' = "lp_for"
    /\ expanded' = <<>>
    /\ UNCHANGED rest_vars
    /\ UNCHANGED <<opts, common, db, caller, compiled_format, filter, parsed,
                   result, target, reason_filter, queue, reqby, stdout, stderr,
                   db_ops>>

\* find_required_by returned: draw the items, push the line if there is one
LpRequiredByLine ==
    /\ pc = "lp_reqby"
    /\ LET drawn == [i \in 1..Len(frb_ret) |-> Draw(frb_ret[i], common.color)]
       IN lines' = IF drawn # <<>>
                   THEN Append(lines, Join(drawn, <<" ">>))
                   ELSE lines
    /\ pkgs' = Tail(pkgs)
    /\ required_by' = <<>>
    /\ frb_ret' = <<>>
    /\ pc' = "lp_for"
    /\ expanded' = <<>>
    /\ UNCHANGED rest_vars
    /\ UNCHANGED <<opts, common, db, caller, compiled_format, filter, parsed,
                   result, target, reason_filter, queue, reqby, stdout, stderr,
                   db_ops>>

\* if !lines.is_empty() { println!(..) }; Ok(())
LpEmit ==
    /\ pc = "lp_for"
    /\ pkgs = <<>>
    /\ stdout' = IF lines # <<>>
                 THEN Append(stdout, Join(lines, <<"\n">>))
                 ELSE stdout
    /\ result' = Ok(<<>>)
    /\ pc' = "done"
    /\ UNCHANGED rest_vars
    /\ UNCHANGED <<opts, common, db, caller, compiled_format, filter, parsed,
                   pkgs, lines, frb_vars, stderr, db_ops>>

\* raw query strings of the command line
RawQueries ==
    { <<"a">>,
      <<"p", "a", "c", "k", "a", "g", "e", ":", "b">>,
      <<"x", ":", "a">>,
      <<" ", "x", ":", "a">> }

\* --format values of the command line
Formats ==
    { None,
      Some(<<"%", "v">>),
      Some(<<"%", "x">>),
      Some(<<"C3", "A9">>) }

\* package names that occur in the databases of list_packages runs
ListNames == {<<"a">>, <<"b">>}

\* list_packages(handle, ListOptions, CommonOptions) at entry
Init ==
    /\ opts \in [queries : UNION {[1..k -> RawQueries] : k \in 0..MaxQueries},
                 explicit : BOOLEAN, dependency : BOOLEAN,
                 required_by : BOOLEAN]
    /\ common \in [color : BOOLEAN, format : Formats]
    /\ db \in Databases(ListNames, MaxListDeps)
    /\ pc = "lp_compile"
    /\ caller = "list_packages"
    /\ compiled_format = <<>>
    /\ filter = "Both"
    /\ parsed = <<>>
    /\ pkgs = <<>>
    /\ lines = <<>>
    /\ result = Pending
    /\ target = NoPkg
    /\ reason_filter = "Both"
    /\ queue = <<>>
    /\ required_by = <<>>
    /\ reqby = <<>>
    /\ frb_ret = <<>>
    /\ expanded = <<>>
    /\ stdout = <<>>
    /\ stderr = <<>>
    /\ db_ops = 0
    /\ RestIdle

Next ==
    \/ LpCompile \/ LpValidate \/ LpParse \/ LpResolve
    \/ LpVisit \/ LpCallFindRequiredBy \/ LpRequiredByLine \/ LpEmit
    \/ FrbPop \/ FrbLookupFailed \/ FrbSeen \/ FrbPush \/ FrbReturn

\* list_packages, the calls of find_required_by it makes included
Spec == Init /\ [][Next]_vars

----------------------------------------------------------------------------
(* Properties of list_packages (checked under Spec) *)

\* the call has returned an error
ReturnedError == pc = "done" /\ ~result.ok

\* no --format was given, or the one given compiles
FormatAccepted ==
    common.format.some => Compile(common.format.val).outcome = "Some"

\* a --format was given and compile returns None for it
FormatRejected ==
    common.format.some /\ Compile(common.format.val).outcome = "None"

RequiredByWithoutQueries == opts.required_by /\ opts.queries = <<>>

\* C1 as stated: a call with required_by set and no query returns
\* InvalidRequest and has made no database call, whatever the format
\* template is.
C1_AnyTemplate ==
    (RequiredByWithoutQueries /\ pc = "done") =>
        /\ result = Err(InvalidRequest(RequiredByWithoutPackages))
        /\ db_ops = 0

\* C1 amended: a call with required_by set and no query makes no database
\* call and never goes past the request check; it returns InvalidRequest
\* when the format template is absent or compiles, whatever the
\* explicit/dependency/color flags are, and InvalidFormat when compile
\* rejects the template.
C1_InvalidRequest ==
    RequiredByWithoutQueries =>
        /\ db_ops = 0
        /\ pc \in {"lp_compile", "lp_validate", "done", "panic"}
        /\ pc = "done" =>
              result = IF FormatAccepted
                       THEN Err(InvalidRequest(RequiredByWithoutPackages))
                       ELSE Err(InvalidFormat(common.format.val))

C1_Witness ==
    /\ RequiredByWithoutQueries
    /\ pc = "done"
    /\ common.format.some
    /\ opts.explicit /\ common.color
    /\ DOMAIN db # {}
    /\ result = Err(InvalidRequest(RequiredByWithoutPackages))

\* C2: when compile rejects the supplied format template, the call returns
\* InvalidFormat carrying that template, in direct-listing and required-by
\* mode alike, and no database call is made before it returns.
C2_InvalidFormat ==
    FormatRejected =>
        /\ db_ops = 0
        /\ pc \in {"lp_compile", "done"}
        /\ pc = "done" => result = Err(InvalidFormat(common.format.val))

C2_Witness ==
    /\ FormatRejected
    /\ pc = "done"
    /\ opts.required_by
    /\ opts.queries # <<>>
    /\ \A i \in 1..Len(opts.queries) : QueryParse(opts.queries[i]).ok
    /\ DOMAIN db # {}
    /\ result = Err(InvalidFormat(<<"%", "x">>))

\* C3: nothing is on the primary output channel when the call returns an
\* error; output is written at most once, by the successful return, after
\* every resolved record has been visited.
C3_NoPartialOutput ==
    /\ ReturnedError => stdout = <<>>
    /\ stdout # <<>> =>
          /\ Len(stdout) = 1
          /\ pc = "done"
          /\ result = Ok(<<>>)
          /\ pkgs = <<>>

C3_Witness ==
    /\ ReturnedError
    /\ result = Err(NoPackagesFound)
    /\ opts.queries # <<>>
    /\ DOMAIN db # {}
    /\ db_ops > 0
    /\ stdout = <<>>

\* every raw query parses
QueriesParse == \A i \in 1..Len(opts.queries) : QueryParse(opts.queries[i]).ok

\* the call gets as far as resolving its queries
ReachesResolution ==
    FormatAccepted /\ ~RequiredByWithoutQueries /\ QueriesParse

\* the i-th raw query names an installed package
MatchedAt(i) ==
    LET q == QueryParse(opts.queries[i])
    IN q.ok /\ q.val.name \in DOMAIN db

\* the installed packages named by a query
Matched ==
    {QueryParse(opts.queries[i]).val.name :
        i \in {j \in 1..Len(opts.queries) : MatchedAt(j)}}

\* the set list_packages resolves is empty
ResolvedEmpty ==
    IF opts.queries = <<>> THEN DOMAIN db = {} ELSE Matched = {}

\* C9: query names that are not installed are dropped without error; the
\* call returns NoPackagesFound exactly when it resolves its queries to the
\* empty set (every name unmatched, or no query and an empty database),
\* and succeeds when a name matches, visiting matched packages only.
C9_NoPackagesFound ==
    /\ pc = "done" =>
          /\ result = Err(NoPackagesFound)
                <=> (ReachesResolution /\ ResolvedEmpty)
          /\ (ReachesResolution /\ ~ResolvedEmpty) => result = Ok(<<>>)
    /\ (opts.queries # <<>> /\ (pkgs # <<>> \/ lines # <<>> \/ target # NoPkg)) =>
          LET matched == Matched IN
          /\ \A i \in 1..Len(pkgs) : pkgs[i] \in matched
          /\ target # NoPkg => target \in matched
          /\ Len(lines) + Len(pkgs) <=
                Cardinality({i \in 1..Len(opts.queries) : MatchedAt(i)})

C9_Witness ==
    /\ pc = "done"
    /\ result = Ok(<<>>)
    /\ Len(opts.queries) = 2
    /\ Cardinality(Matched) = 1
    /\ \E i \in 1..2 : QueryParse(opts.queries[i]).val.name \notin DOMAIN db
    /\ stdout # <<>>

\* a raw query does not parse
ParseFails(i) == ~QueryParse(opts.queries[i]).ok

\* the first raw query, in input order, that does not parse
FirstFailing ==
    CHOOSE i \in 1..Len(opts.queries) :
        ParseFails(i) /\ \A j \in 1..(i - 1) : ~ParseFails(j)

\* C10: when a raw query fails to parse, a call that gets to its queries
\* (the format template is absent or compiles) returns InvalidQuery with the
\* ParseError of the first failing query in input order, also when other
\* queries are valid and name installed packages; the database is not read.
C10_FirstParseError ==
    /\ db_ops # 0 => \A i \in 1..Len(opts.queries) : ~ParseFails(i)
    /\ (/\ pc = "done"
        /\ \E i \in 1..Len(opts.queries) : ParseFails(i)
        /\ FormatAccepted) =>
           result = Err(InvalidQuery(
                        QueryParse(opts.queries[FirstFailing]).err))

C10_Witness ==
    /\ pc = "done"
    /\ Len(opts.queries) = 2
    /\ ParseFails(1) /\ ParseFails(2)
    /\ QueryParse(opts.queries[1]).err # QueryParse(opts.queries[2]).err
    /\ result = Err(InvalidQuery(SyntaxError))

----------------------------------------------------------------------------
(* The reverse-dependency relation of a database *)

\* the installed direct dependents of n: the names of its list whose lookup
\* succeeds
Dependents(d, n) ==
    {m \in DOMAIN d : \E i \in 1..Len(d[n].required_by) : d[n].required_by[i] = m}

\* the packages within k steps of the set S (S included)
RECURSIVE Within(_, _, _)
Within(d, S, k) ==
    IF k = 0 THEN S
    ELSE LET R == Within(d, S, k - 1)
         IN R \cup UNION {Dependents(d, n) : n \in R}

\* the packages reachable from t by one or more steps
Reach(d, t) == Within(d, Dependents(d, t), Cardinality(DOMAIN d))

\* the least number of steps (one or more) from t to n, for n in Reach(d, t)
Dist(d, t, n) ==
    1 + (CHOOSE k \in 0..Cardinality(DOMAIN d) :
            /\ n \in Within(d, Dependents(d, t), k)
            /\ \A j \in 0..(k - 1) : n \notin Within(d, Dependents(d, t), j))

\* the names of a list of items
NamesOf(items) == {items[i].name : i \in 1..Len(items)}

\* t lies on a cycle of the relation, or lists itself
OnCycle(d, t) == t \in Reach(d, t)

----------------------------------------------------------------------------
(* Properties of find_required_by (checked under FrbSpec, FrbFairSpec) *)

\* what is left to do: packages not discovered, records queued, names of the
\* current list not visited, the return
TraversalMeasure ==
    LET W == Cardinality(Names) + 1
    IN Cardinality(DOMAIN db \ NamesOf(required_by)) * W * W
          + Len(queue) * W
          + Len(reqby)
          + (IF pc = "done" THEN 0 ELSE 1)

\* C4: find_required_by terminates for every database and target, also
\* when the reverse-dependency relation has cycles or a package lists
\* itself: the queue drains and the call returns.
\* It does so within a number of steps fixed by the database: every step
\* lowers a natural number that counts the packages not yet discovered, then
\* the records queued, then the names left in the current list.
C4_Terminates ==
    /\ <>(pc = "done" /\ queue = <<>>)
    /\ [](TraversalMeasure >= 0)
    /\ [][TraversalMeasure' < TraversalMeasure]_vars

C4_Witness ==
    /\ pc = "done"
    /\ OnCycle(db, target)
    /\ \E n \in Reach(db, target) : n \in Dependents(db, n)
    /\ \E n \in Reach(db, target) : n # target /\ target \in Dependents(db, n)

\* no name occurs twice in a list of items
NoDuplicateNames(items) ==
    \A i, j \in 1..Len(items) : items[i].name = items[j].name => i = j

\* C5: at every step of the traversal and in the list returned, no package
\* name occurs more than once in the required-by result list.
C5_NoDuplicates ==
    /\ NoDuplicateNames(required_by)
    /\ NoDuplicateNames(frb_ret)

C5_Witness ==
    /\ pc = "done"
    /\ OnCycle(db, target)
    /\ Len(frb_ret) = 3
    /\ \E n \in DOMAIN db :
          Cardinality({m \in {target} \cup Reach(db, target) :
                          n \in Dependents(db, m)}) >= 2

\* the selector accepts an install reason
Accepts(selector, reason) == selector = "Both" \/ selector = reason

\* C6: the names returned are exactly the packages reachable from the
\* target by one or more direct-dependents steps with successful lookups,
\* through packages of any install reason, whose own install reason the
\* selector accepts; each item's tag is the package's install reason.
C6_ReachableAccepted ==
    pc = "done" =>
        /\ NamesOf(frb_ret) =
              {n \in Reach(db, target) : Accepts(reason_filter, db[n].reason)}
        /\ \A i \in 1..Len(frb_ret) :
              frb_ret[i].tag = db[frb_ret[i].name].reason

C6_Witness ==
    /\ pc = "done"
    /\ reason_filter # "Both"
    /\ \E n \in NamesOf(frb_ret) :
          /\ n \notin Dependents(db, target)
          /\ \A m \in DOMAIN db :
                n \in Dependents(db, m) => ~Accepts(reason_filter, db[m].reason)

\* the subsequence of the accepted items of a list
RECURSIVE AcceptedOf(_, _)
AcceptedOf(items, selector) ==
    IF items = <<>> THEN <<>>
    ELSE (IF Accepts(selector, Head(items).tag) THEN <<Head(items)>> ELSE <<>>)
            \o AcceptedOf(Tail(items), selector)

\* the order in which records are expanded: the target, then the discoveries
ExpansionOrder == <<target>> \o [i \in 1..Len(required_by) |-> required_by[i].name]

\* position of the first record expanded whose list holds n
Discoverer(n) ==
    CHOOSE k \in 1..Len(ExpansionOrder) :
        /\ n \in Dependents(db, ExpansionOrder[k])
        /\ \A j \in 1..(k - 1) : n \notin Dependents(db, ExpansionOrder[j])

\* position of the first occurrence of n in a list of names
PositionIn(list, n) ==
    CHOOSE k \in 1..Len(list) :
        list[k] = n /\ \A j \in 1..(k - 1) : list[j] # n

\* C7: the list returned is the discovery list with the rejected items
\* removed and the others in the same order; the discovery list is in
\* breadth-first order: distances from the target never decrease along it,
\* and the dependents discovered from one package keep the order of that
\* package's direct-dependents list.
C7_BreadthFirstOrder ==
    pc = "done" =>
        /\ frb_ret = AcceptedOf(required_by, reason_filter)
        /\ \A i, j \in 1..Len(required_by) :
              i < j =>
                  /\ Dist(db, target, required_by[i].name)
                        <= Dist(db, target, required_by[j].name)
                  /\ Discoverer(required_by[i].name)
                        <= Discoverer(required_by[j].name)
                  /\ Discoverer(required_by[i].name)
                        = Discoverer(required_by[j].name) =>
                        LET list == db[ExpansionOrder[
                                        Discoverer(required_by[i].name)]].required_by
                        IN PositionIn(list, required_by[i].name)
                              < PositionIn(list, required_by[j].name)

C7_Witness ==
    /\ pc = "done"
    /\ Len(required_by) = 3
    /\ Len(frb_ret) = 2
    /\ Discoverer(required_by[1].name) = Discoverer(required_by[2].name)
    /\ Dist(db, target, required_by[2].name) < Dist(db, target, required_by[3].name)
    /\ required_by[1].name = <<"c">>
    /\ required_by[2].name = <<"a">>

\* the names whose lookup fails in the lists the traversal reads
MissingSeen ==
    {m \in Names \ DOMAIN db :
        \E n \in {target} \cup Reach(db, target) :
            \E i \in 1..Len(db[n].required_by) : db[n].required_by[i] = m}

\* the next name of the current dependents list is not in the database
AtFailedLookup == pc = "frb_for" /\ reqby # <<>> /\ Head(reqby) \notin DOMAIN db

\* C8: a failed lookup adds nothing to the result or the queue, writes one
\* diagnostic naming the dependent, and the traversal goes on with the rest
\* of the same list and of the queue: the call returns every reachable
\* package, and a diagnostic for every name that could not be looked up.
C8_FailedLookupSkipped ==
    /\ [][AtFailedLookup =>
            /\ required_by' = required_by
            /\ queue' = queue
            /\ stderr' = Append(stderr, FetchDiagnostic(Head(reqby)))
            /\ reqby' = Tail(reqby)
            /\ pc' \in {"frb_for", "frb_while"}]_vars
    /\ [](pc = "done" =>
            /\ NamesOf(required_by) = Reach(db, target)
            /\ {stderr[i][2] : i \in 1..Len(stderr)} = MissingSeen
            /\ NamesOf(required_by) \cap MissingSeen = {})

C8_Witness ==
    /\ pc = "done"
    /\ stderr # <<>>
    /\ \E n \in {target} \cup Reach(db, target) :
          /\ Len(db[n].required_by) = 2
          /\ db[n].required_by[1] \notin DOMAIN db
          /\ db[n].required_by[2] \in NamesOf(frb_ret)
          /\ \A m \in DOMAIN db \ {n} :
                db[n].required_by[2] \notin Dependents(db, m)

----------------------------------------------------------------------------
(* src/src/output.rs: CompiledFormat::compile and CompiledFormat::display,
   one loop iteration per step *)

\* longest template, in characters
MaxTemplate == 4

\* the characters a template is made of; the last one is U+00E9, two bytes
FormatChars ==
    {<<"%">>, <<"n">>, <<"s">>, <<"r">>, <<"v">>, <<"{">>, <<"}">>,
     <<"C3", "A9">>}

Templates ==
    {Concat(cs) : cs \in UNION {[1..k -> FormatChars] : k \in 0..MaxTemplate}}

\* what compile and display leave alone
cf_rest == <<opts, common, caller, lp_vars, frb_vars, stdout, stderr, db_ops,
             qp_vars, calls, main_vars>>

\* &text[start..end]: both indexes in range, in order, on character boundaries
SliceOk(text, start, end) ==
    /\ start <= end
    /\ end <= Len(text)
    /\ IsCharBoundary(text, start)
    /\ IsCharBoundary(text, end)

\* `while start < text.len()` is entered
CfInLoop == pc = "cf_loop" /\ cf_start < Len(cf_text)

\* `let chunk = &text[start..end]` aborts
CfPanic ==
    /\ CfInLoop
    /\ ~SliceOk(cf_text, cf_start, cf_end)
    /\ compile_ret' = CompilePanic
    /\ pc' = "panic"
    /\ UNCHANGED <<cf_text, cf_start, cf_end, cf_parts, cf_pkg, output>>
    /\ UNCHANGED <<db, cf_rest>>

\* Format::parse_token_slice(chunk) of the iteration under way
CfStatus == ParseTokenSlice(SubSeq(cf_text, cf_start + 1, cf_end))

\* ParseStatus::NeedMore
CfNeedMore ==
    /\ CfInLoop
    /\ SliceOk(cf_text, cf_start, cf_end)
    /\ CfStatus.status = "NeedMore"
    /\ cf_end' = cf_end + 1
    /\ IF cf_end' > Len(cf_text)
       THEN compile_ret' = CompileNone /\ pc' = "done"
       ELSE UNCHANGED <<compile_ret, pc>>
    /\ UNCHANGED <<cf_text, cf_start, cf_parts, cf_pkg, output>>
    /\ UNCHANGED <<db, cf_rest>>

\* ParseStatus::Invalid
CfInvalid ==
    /\ CfInLoop
    /\ SliceOk(cf_text, cf_start, cf_end)
    /\ CfStatus.status = "Invalid"
    /\ compile_ret' = CompileNone
    /\ pc' = "done"
    /\ UNCHANGED <<cf_text, cf_start, cf_end, cf_parts, cf_pkg, output>>
    /\ UNCHANGED <<db, cf_rest>>

\* CfCorrect putting a Text op together with a Text op right before it
CfCorrect_Merges ==
    /\ CfInLoop
    /\ SliceOk(cf_text, cf_start, cf_end)
    /\ CfStatus.status = "Correct"
    /\ cf_parts' =
          IF /\ CfStatus.form.op = "Text"
             /\ cf_parts # <<>>
             /\ cf_parts[Len(cf_parts)].op = "Text"
          THEN [cf_parts EXCEPT ![Len(cf_parts)] =
                    Text(cf_parts[Len(cf_parts)].text \o CfStatus.form.text)]
          ELSE Append(cf_parts, CfStatus.form)
    /\ cf_start' = cf_end
    /\ cf_end' = cf_end + 1
    /\ UNCHANGED <<cf_text, compile_ret, pc, cf_pkg, output>>
    /\ UNCHANGED <<db, cf_rest>>

\* ParseStatus::Correct(form)
CfCorrect ==
    /\ CfInLoop
    /\ SliceOk(cf_text, cf_start, cf_end)
    /\ CfStatus.status = "Correct"
    /\ cf_parts' = Append(cf_parts, CfStatus.form)
    /\ cf_start' = cf_end
    /\ cf_end' = cf_end + 1
    /\ UNCHANGED <<cf_text, compile_ret, pc, cf_pkg, output>>
    /\ UNCHANGED <<db, cf_rest>>

\* the loop is left: Some(CompiledFormat(format_parts))
CfReturn ==
    /\ pc = "cf_loop"
    /\ ~(cf_start < Len(cf_text))
    /\ compile_ret' = Compiled(cf_parts)
    /\ pc' = "cf_display"
    /\ UNCHANGED <<cf_text, cf_start, cf_end, cf_parts, cf_pkg, output>>
    /\ UNCHANGED <<db, cf_rest>>

\* CompiledFormat::display of the compiled format, for a package of db
CfDisplay ==
    /\ pc = "cf_display"
    /\ \E name \in DOMAIN db :
          /\ cf_pkg' = name
          /\ output' = Display(compile_ret.parts, db, name)
    /\ pc' = "done"
    /\ UNCHANGED <<cf_text, cf_start, cf_end, cf_parts, compile_ret>>
    /\ UNCHANGED <<db, cf_rest>>

CfNext ==
    \/ CfPanic
    \/ CfNeedMore
    \/ CfInvalid
    \/ CfCorrect
    \/ CfReturn
    \/ CfDisplay

\* the variables of list_packages and find_required_by, no call under way
ListingIdle ==
    /\ caller = "none"
    /\ opts = NoOpts
    /\ common = NoCommon
    /\ compiled_format = <<>>
    /\ filter = "Both"
    /\ parsed = <<>>
    /\ pkgs = <<>>
    /\ lines = <<>>
    /\ result = Pending
    /\ target = NoPkg
    /\ reason_filter = "Both"
    /\ queue = <<>>
    /\ required_by = <<>>
    /\ reqby = <<>>
    /\ frb_ret = <<>>
    /\ expanded = <<>>
    /\ stdout = <<>>
    /\ stderr = <<>>
    /\ db_ops = 0

\* CompiledFormat::compile(text) right after its three `let`s; the package
\* that display is called with later is the one of db
CfInit ==
    /\ cf_text \in Templates
    /\ cf_start = 0
    /\ cf_end = 0
    /\ cf_parts = <<>>
    /\ compile_ret = Running
    /\ cf_pkg = NoPkg
    /\ output = <<>>
    /\ db \in UNION {[{name} -> [reason : PackageReason, required_by : {<<>>}]] :
                        name \in ListNames}
    /\ pc = "cf_loop"
    /\ ListingIdle
    /\ raw = <<>>
    /\ parse_ret = Pending
    /\ calls = <<>>
    /\ parsed_args = Pending
    /\ handle = "none"
    /\ exit_code = NoExit

CompileSpec == CfInit /\ [][CfNext]_vars

\* the call is sequential code: it keeps running until it returns or aborts
CompileFairSpec == CompileSpec /\ WF_vars(CfNext)

----------------------------------------------------------------------------
(* C11: which templates compile *)

Shorthands == {"%", "n", "s", "r", "v"}
Directives == {"n", "s", "r", "v"}

\* the template grammar, read left to right: a byte other than % stands for
\* itself, a % starts a shorthand (%%, %n, %s, %r, %v) or a brace directive
\* (%{n}, %{s}, %{r}, %{v}) and nothing else
RECURSIVE WellFormed(_)
WellFormed(t) ==
    IF t = <<>> THEN TRUE
    ELSE IF Head(t) # "%" THEN WellFormed(Tail(t))
    ELSE \/ /\ Len(t) >= 2
            /\ t[2] \in Shorthands
            /\ WellFormed(SubSeq(t, 3, Len(t)))
         \/ /\ Len(t) >= 4
            /\ t[2] = "{"
            /\ t[3] \in Directives
            /\ t[4] = "}"
            /\ WellFormed(SubSeq(t, 5, Len(t)))

\* every character of the template is one byte long
IsAscii(t) == \A i \in 1..Len(t) : t[i] \notin {"C3"} \cup ContinuationBytes

CompileEnded == compile_ret # Running

\* C11: compile(T) returns none iff T has a % that completes no shorthand and
\* no brace directive (an unterminated %{ included), and returns a compiled
\* format for every other template, the empty one included.
C11_NoneIffMalformed ==
    CompileEnded =>
        /\ compile_ret.outcome = "None" <=> ~WellFormed(cf_text)
        /\ WellFormed(cf_text) => compile_ret.outcome = "Some"

\* the same for the templates all of whose characters are one byte long
C11_OnAscii == IsAscii(cf_text) => C11_NoneIffMalformed

----------------------------------------------------------------------------
(* C12: what a compiled template renders *)

\* what the directive letter c stands for, for the package pkg of d
Field(c, d, pkg) ==
    CASE c = "n" -> pkg
      [] c = "s" -> (IF PkgDesc(pkg) = None THEN <<>> ELSE PkgDesc(pkg).val)
      [] c = "r" -> (IF d[pkg].reason = "Explicit"
                     THEN <<"E", "x", "p", "l", "i", "c", "i", "t">>
                     ELSE <<"D", "e", "p", "e", "n", "d">>)
      [] c = "v" -> PkgVersion(pkg)

\* a well-formed template read left to right, directives replaced
RECURSIVE Render(_, _, _)
Render(t, d, pkg) ==
    IF t = <<>> THEN <<>>
    ELSE IF Head(t) # "%" THEN <<Head(t)>> \o Render(Tail(t), d, pkg)
    ELSE IF t[2] = "%" THEN <<"%">> \o Render(SubSeq(t, 3, Len(t)), d, pkg)
    ELSE IF t[2] = "{"
         THEN Field(t[3], d, pkg) \o Render(SubSeq(t, 5, Len(t)), d, pkg)
    ELSE Field(t[2], d, pkg) \o Render(SubSeq(t, 3, Len(t)), d, pkg)

Displayed == pc = "done" /\ compile_ret.outcome = "Some"

\* C12: for a template that compiles, display of the compiled format is the
\* template read left to right with %% replaced by %, %n and %{n} by the
\* name, %s and %{s} by the description (empty when absent), %r and %{r} by
\* Explicit or Depend, %v and %{v} by the version, every other character
\* copied in place.
C12_DisplayRenders ==
    Displayed => output = Render(cf_text, db, cf_pkg)

\* "%%%s" for package a, whose description is "d", has rendered "%d"
C12_Witness ==
    /\ Displayed
    /\ cf_text = <<"%", "%", "%", "s">>
    /\ cf_pkg = <<"a">>
    /\ output = <<"%", "d">>

----------------------------------------------------------------------------
(* C18: the Text ops of a compiled template *)

\* the maximal runs of bytes other than % of a well-formed template, in order
\* (a directive ends a run; the % that %% stands for belongs to no run)
RECURSIVE LiteralRuns(_, _)
LiteralRuns(t, run) ==
    LET closed == IF run = <<>> THEN <<>> ELSE <<run>> IN
    IF t = <<>> THEN closed
    ELSE IF Head(t) # "%" THEN LiteralRuns(Tail(t), Append(run, Head(t)))
    ELSE IF t[2] = "{" THEN closed \o LiteralRuns(SubSeq(t, 5, Len(t)), <<>>)
    ELSE closed \o LiteralRuns(SubSeq(t, 3, Len(t)), <<>>)

\* the texts of the Text ops that come from text other than %%
TextsOf(parts) ==
    LET texts == SelectSeq(parts, LAMBDA f : f.op = "Text" /\ f.text # <<"%">>)
    IN [i \in 1..Len(texts) |-> texts[i].text]

\* two neighbouring Text ops, neither of them the % of a %%
AdjacentTexts(parts) ==
    \E i \in 1..(Len(parts) - 1) :
        /\ parts[i].op = "Text" /\ parts[i].text # <<"%">>
        /\ parts[i + 1].op = "Text" /\ parts[i + 1].text # <<"%">>

CompiledSome == compile_ret.outcome = "Some"

\* C18: in the compiled op sequence every maximal run of characters other
\* than % is one Text op holding the whole run, so no two Text ops that come
\* from such text are neighbours.
C18_MaximalMunch ==
    CompiledSome =>
        /\ TextsOf(compile_ret.parts) = LiteralRuns(cf_text, <<>>)
        /\ ~AdjacentTexts(compile_ret.parts)

\* C18 as the code has it: every character other than % that is not part of
\* a directive is a Text op of its own holding that one character, in
\* template order, so a run of k such characters is k neighbouring Text ops.
C18_OneTextPerCharacter ==
    CompiledSome =>
        LET flat == Concat(LiteralRuns(cf_text, <<>>)) IN
        /\ TextsOf(compile_ret.parts) = [i \in 1..Len(flat) |-> <<flat[i]>>]
        /\ \A i \in 1..Len(compile_ret.parts) :
              compile_ret.parts[i].op = "Text" =>
                  Len(compile_ret.parts[i].text) = 1

\* "nn%v" has compiled to Text n, Text n, Version
C18_Witness ==
    /\ CompiledSome
    /\ cf_text = <<"n", "n", "%", "v">>
    /\ compile_ret.parts = <<Text(<<"n">>), Text(<<"n">>), FormatVersion>>

----------------------------------------------------------------------------
(* C20: the slices compile takes *)

\* C20: compile returns none or a compiled format for every template,
\* multi-byte characters included: every slice text[start..end] it takes has
\* 0 <= start <= end <= len(text) and falls on character boundaries, so the
\* scan never aborts.
C20_CompileReturns ==
    /\ CfInLoop => SliceOk(cf_text, cf_start, cf_end)
    /\ CompileEnded => compile_ret.outcome \in {"None", "Some"}

\* the part of C20 that holds: the indexes are in range and in order
C20_InRange ==
    CfInLoop => 0 <= cf_start /\ cf_start <= cf_end /\ cf_end <= Len(cf_text)

----------------------------------------------------------------------------
(* src/src/query.rs: Query::parse called on its own *)

\* most pieces a query string is put together from
MaxRaw == 4

\* the pieces: the property name, the separator, whitespace, other text
RawPieces == {<<"p", "a", "c", "k", "a", "g", "e">>, <<":">>, <<" ">>, <<"a">>, <<"x">>}

RawStrings ==
    {Concat(ps) : ps \in UNION {[1..k -> RawPieces] : k \in 0..MaxRaw}}

\* Query::parse(query)
QpParse ==
    /\ pc = "qp_call"
    /\ parse_ret' = QueryParse(raw)
    /\ pc' = "done"
    /\ UNCHANGED <<raw, db, cf_vars, calls, main_vars>>
    /\ UNCHANGED <<opts, common, caller, lp_vars, frb_vars, stdout, stderr, db_ops>>

QpNext == QpParse

QpInit ==
    /\ raw \in RawStrings
    /\ parse_ret = Pending
    /\ pc = "qp_call"
    /\ db = <<>>
    /\ ListingIdle
    /\ cf_text = <<>>
    /\ cf_start = 0
    /\ cf_end = 0
    /\ cf_parts = <<>>
    /\ compile_ret = Running
    /\ cf_pkg = NoPkg
    /\ output = <<>>
    /\ calls = <<>>
    /\ parsed_args = Pending
    /\ handle = "none"
    /\ exit_code = NoExit

ParseSpec == QpInit /\ [][QpNext]_vars

----------------------------------------------------------------------------
(* C13: what Query::parse returns *)

Colons(s) == {i \in 1..Len(s) : s[i] = ":"}
FirstColon(s) == CHOOSE k \in Colons(s) : \A j \in Colons(s) : k <= j

\* s starts or ends with whitespace
Padded(s) == s # <<>> /\ (s[1] \in Whitespace \/ s[Len(s)] \in Whitespace)

\* C13: Query::parse returns for every string, and decides by the text
\* before the first colon: no colon gives PackageName(raw); the prefix
\* "package" gives PackageName(all that follows the first colon); a prefix
\* with leading or trailing whitespace gives SyntaxError; any other prefix,
\* the empty one included, gives InvalidProperty(prefix).
C13_ParseByPrefix ==
    pc = "done" =>
        IF Colons(raw) = {} THEN parse_ret = Ok(PackageName(raw))
        ELSE LET k == FirstColon(raw)
                 prefix == SubSeq(raw, 1, k - 1)
                 value == SubSeq(raw, k + 1, Len(raw))
             IN CASE prefix = <<"p", "a", "c", "k", "a", "g", "e">> ->
                        parse_ret = Ok(PackageName(value))
                  [] prefix # <<"p", "a", "c", "k", "a", "g", "e">> /\ Padded(prefix) ->
                        parse_ret = Err(SyntaxError)
                  [] OTHER -> parse_ret = Err(InvalidProperty(prefix))

\* "package:a:" has parsed to the package name "a:"
C13_Witness ==
    /\ pc = "done"
    /\ raw = <<"p", "a", "c", "k", "a", "g", "e", ":", "a", ":">>
    /\ parse_ret = Ok(PackageName(<<"a", ":">>))

----------------------------------------------------------------------------
(* src/src/listing.rs: a ReasonSelector made by new, then asked *)

\* most calls of filter and test made on one selector
MaxCalls == 2

\* what the selector calls leave alone
sel_rest == <<common, db, caller, compiled_format, parsed, pkgs, lines, result,
              frb_vars, stdout, stderr, db_ops, cf_vars, qp_vars, main_vars>>

\* ReasonSelector::new(opts.explicit, opts.dependency)
SelNew ==
    /\ pc = "sel_new"
    /\ filter' = ReasonSelectorNew(opts.explicit, opts.dependency)
    /\ pc' = "sel_use"
    /\ UNCHANGED <<opts, calls, sel_rest>>

\* filter.filter(reason)
SelFilter ==
    /\ pc = "sel_use"
    /\ Len(calls) < MaxCalls
    /\ \E reason \in PackageReason :
          calls' = Append(calls, [fn |-> "filter", arg |-> ReqByItem(reason, <<>>),
                                  ret |-> ReasonSelectorFilter(filter, reason)])
    /\ UNCHANGED <<opts, filter, pc, sel_rest>>

\* filter.test(&item)
SelTest ==
    /\ pc = "sel_use"
    /\ Len(calls) < MaxCalls
    /\ \E reason \in PackageReason, name \in ListNames :
          LET item == ReqByItem(reason, name) IN
          calls' = Append(calls, [fn |-> "test", arg |-> item,
                                  ret |-> Some(ReasonSelectorTest(filter, item))])
    /\ UNCHANGED <<opts, filter, pc, sel_rest>>

SelNext ==
    \/ SelNew
    \/ SelFilter
    \/ SelTest

SelInit ==
    /\ opts \in [queries : {<<>>}, explicit : BOOLEAN, dependency : BOOLEAN,
                 required_by : {FALSE}]
    /\ filter = "Both"
    /\ calls = <<>>
    /\ pc = "sel_new"
    /\ db = <<>>
    /\ caller = "none"
    /\ common = NoCommon
    /\ compiled_format = <<>>
    /\ parsed = <<>>
    /\ pkgs = <<>>
    /\ lines = <<>>
    /\ result = Pending
    /\ target = NoPkg
    /\ reason_filter = "Both"
    /\ queue = <<>>
    /\ required_by = <<>>
    /\ reqby = <<>>
    /\ frb_ret = <<>>
    /\ expanded = <<>>
    /\ stdout = <<>>
    /\ stderr = <<>>
    /\ db_ops = 0
    /\ cf_text = <<>>
    /\ cf_start = 0
    /\ cf_end = 0
    /\ cf_parts = <<>>
    /\ compile_ret = Running
    /\ cf_pkg = NoPkg
    /\ output = <<>>
    /\ raw = <<>>
    /\ parse_ret = Pending
    /\ parsed_args = Pending
    /\ handle = "none"
    /\ exit_code = NoExit

SelectorSpec == SelInit /\ [][SelNext]_vars

----------------------------------------------------------------------------
(* C14: the selector that new makes *)

\* every call made so far returned what a selector passing `passes` returns
Behaves(passes) ==
    \A i \in 1..Len(calls) :
        LET c == calls[i] IN
        /\ c.fn = "filter" =>
              c.ret = (IF c.arg.tag \in passes THEN Some(c.arg.tag) ELSE None)
        /\ c.fn = "test" => c.ret = Some(c.arg.tag \in passes)

\* C14: new(false,false) and new(true,true) make Both, for which filter
\* returns the reason it is given and test is true of every item;
\* new(true,false) passes only Explicit and new(false,true) only Depend.
C14_SelectorOfFlags ==
    pc = "sel_use" =>
        /\ opts.explicit = opts.dependency =>
              filter = "Both" /\ Behaves({"Explicit", "Depend"})
        /\ opts.explicit /\ ~opts.dependency => Behaves({"Explicit"})
        /\ ~opts.explicit /\ opts.dependency => Behaves({"Depend"})

\* new(true,true) has let a Depend reason and an Explicit item through
C14_Witness ==
    /\ pc = "sel_use"
    /\ opts.explicit /\ opts.dependency
    /\ Len(calls) = 2
    /\ calls[1] = [fn |-> "filter", arg |-> ReqByItem("Depend", <<>>),
                   ret |-> Some("Depend")]
    /\ calls[2] = [fn |-> "test", arg |-> ReqByItem("Explicit", <<"a">>),
                   ret |-> Some(TRUE)]

----------------------------------------------------------------------------
(* C15: the lines of a direct listing *)

\* the package a well-formed raw query names
QueriedName(q) ==
    IF StartsWith(q, <<"p", "a", "c", "k", "a", "g", "e", ":">>)
    THEN SubSeq(q, 9, Len(q)) ELSE q

\* the installed packages the call is about, in resolution order: the
\* queried names in query order, or the whole database in its own order
Resolved ==
    IF opts.queries = <<>> THEN DbPkgs(db)
    ELSE SelectSeq([i \in 1..Len(opts.queries) |-> QueriedName(opts.queries[i])],
                   LAMBDA n : n \in DOMAIN db)

\* the install reasons the explicit and dependency flags let through
Passing ==
    IF opts.explicit = opts.dependency THEN PackageReason
    ELSE IF opts.explicit THEN {"Explicit"} ELSE {"Depend"}

\* the template in force: the one given, or the name alone
TemplateInForce ==
    IF common.format.some THEN common.format.val ELSE <<"%", "n">>

\* the sequence ss printed with one println!, nothing printed when it is empty
Printed(ss) == IF ss = <<>> THEN <<>> ELSE <<Join(ss, <<"\n">>)>>

DirectSuccess == pc = "done" /\ result.ok /\ ~opts.required_by

\* C15: a successful direct listing prints one line per resolved record
\* whose install reason passes the selector, in resolution order (a name
\* queried twice gives two lines), the line being the format rendered for
\* the record; a record that is filtered out gives no line.
C15_DirectLines ==
    DirectSuccess =>
        LET kept == SelectSeq(Resolved, LAMBDA n : db[n].reason \in Passing)
        IN stdout = Printed([i \in 1..Len(kept) |->
                                Render(TemplateInForce, db, kept[i])])

\* "package:b" and "a" were queried in this order with --explicit: b is
\* Depend and gives no line, a gives the only one
C15_Witness ==
    /\ DirectSuccess
    /\ opts.queries = <<(<<"p", "a", "c", "k", "a", "g", "e", ":", "b">>), (<<"a">>)>>
    /\ opts.explicit /\ ~opts.dependency
    /\ DOMAIN db = ListNames
    /\ db[<<"b">>].reason = "Depend"
    /\ db[<<"a">>].reason = "Explicit"
    /\ common.format = None
    /\ stdout = <<(<<"a">>)>>

----------------------------------------------------------------------------
(* C16: the lines of a required-by listing *)

\* the names discovered from the records `todo` still to expand, in
\* breadth-first order, after `found`
RECURSIVE Walk(_, _, _)
Walk(d, todo, found) ==
    IF todo = <<>> THEN found
    ELSE LET fresh == SelectSeq(d[Head(todo)].required_by,
                          LAMBDA n : /\ n \in DOMAIN d
                                     /\ \A i \in 1..Len(found) : found[i] # n)
         IN Walk(d, Tail(todo) \o fresh, found \o fresh)

\* the names of the filtered required-by list of t, in list order
RequiredByNames(d, t, passing) ==
    SelectSeq(Walk(d, <<t>>, <<>>), LAMBDA n : d[n].reason \in passing)

\* find_required_by returns the names of the walk that pass, in its order
WalkIsReturned ==
    pc = "done" =>
        [i \in 1..Len(frb_ret) |-> frb_ret[i].name]
            = RequiredByNames(db, target,
                  IF reason_filter = "Both" THEN PackageReason ELSE {reason_filter})

\* the resolved targets whose filtered required-by list is not empty
TargetsWithLine ==
    SelectSeq(Resolved, LAMBDA t : RequiredByNames(db, t, Passing) # <<>>)

\* a name as it is drawn: an Explicit one in yellow when color is on
Coloured(n) ==
    IF common.color /\ db[n].reason = "Explicit"
    THEN <<"ESC", "[", "3", "3", "m">> \o n \o <<"ESC", "[", "m">>
    ELSE n

\* a required-by listing that gets as far as its loop has returned
RequiredByDone ==
    /\ pc = "done"
    /\ opts.required_by
    /\ ReachesResolution
    /\ ~ResolvedEmpty

\* C16: a successful required-by listing prints, in resolution order, one
\* line per resolved target whose filtered required-by list is not empty,
\* the line being the item names joined by single spaces in list order; a
\* target with an empty filtered list gives no line, and a call that gives
\* no line prints nothing and returns success.
C16_NamesJoined ==
    RequiredByDone =>
        /\ result = Ok(<<>>)
        /\ stdout = Printed([i \in 1..Len(TargetsWithLine) |->
                        Join(RequiredByNames(db, TargetsWithLine[i], Passing),
                             <<" ">>)])

\* C16 as the code has it: the same, each item drawn before the join, the
\* name of an Explicit item between the escape sequences ESC[33m and ESC[m
\* when color is on, every other name as it is.
C16_DrawnJoined ==
    RequiredByDone =>
        /\ result = Ok(<<>>)
        /\ stdout = Printed([i \in 1..Len(TargetsWithLine) |->
                        LET names == RequiredByNames(db, TargetsWithLine[i], Passing)
                        IN Join([k \in 1..Len(names) |-> Coloured(names[k])],
                                <<" ">>)])

\* a and b were queried with color on; b, Explicit, requires a and nothing
\* requires b: one line for a, with b in yellow, and none for b
C16_Witness ==
    /\ RequiredByDone
    /\ opts.queries = <<(<<"a">>), (<<"p", "a", "c", "k", "a", "g", "e", ":", "b">>)>>
    /\ common.color
    /\ DOMAIN db = ListNames
    /\ db[<<"a">>].required_by = <<(<<"b">>)>>
    /\ db[<<"b">>].required_by = <<>>
    /\ db[<<"b">>].reason = "Explicit"
    /\ stdout = <<(<<"ESC", "[", "3", "3", "m", "b", "ESC", "[", "m">>)>>

----------------------------------------------------------------------------
(* C19: the target in its own required-by list *)

\* how many items of a list carry the name n
Occurrences(items, n) == Cardinality({i \in 1..Len(items) : items[i].name = n})

\* C19: the list find_required_by returns for T holds T itself exactly when
\* T is reachable from T by one or more direct-dependents steps with
\* successful lookups (T is on a cycle or lists itself) and the selector
\* accepts T's install reason; it then holds T once.
C19_TargetNotSpecial ==
    pc = "done" =>
        /\ target \in NamesOf(frb_ret)
              <=> (OnCycle(db, target) /\ Accepts(reason_filter, db[target].reason))
        /\ Occurrences(frb_ret, target) <= 1

\* the target is on a cycle through another package and is returned, after
\* that package
C19_Witness ==
    /\ pc = "done"
    /\ target \notin Dependents(db, target)
    /\ Len(frb_ret) = 2
    /\ frb_ret[2].name = target

----------------------------------------------------------------------------
(* src/src/main.rs: main, with what argparse::parse_args returned as input *)

\* argparse::ArgError
UnknownOption(opt) == [tag |-> "UnknownOption", arg |-> opt]
DuplicateOption(opt) == [tag |-> "DuplicateOption", arg |-> opt]

\* <ArgError as Display>::fmt
ArgErrorLine(e) ==
    IF e.tag = "UnknownOption" THEN <<"unknown option: ", e.arg>>
    ELSE <<"duplicate option: ", e.arg>>

\* <ParseError as Display>::fmt
ParseErrorLine(e) ==
    IF e.tag = "InvalidProperty" THEN <<"property not supported: ", e.arg>>
    ELSE <<"invalid syntax">>

\* <ProgramError as Display>::fmt
ProgramErrorLine(e) ==
    CASE e.tag = "NoPackagesFound" -> <<"no matching packages found">>
      [] e.tag = "InvalidFormat" -> <<"invalid format '", e.arg, "'">>
      [] e.tag = "InvalidRequest" -> <<e.arg>>
      [] e.tag = "InvalidQuery" -> ParseErrorLine(e.arg)

\* ApiList::apply_defaults: neither or both of explicit and dependency given
\* means both
ApplyDefaults(list) ==
    IF list.explicit = list.dependency
    THEN [list EXCEPT !.explicit = TRUE, !.dependency = TRUE]
    ELSE list

\* the short and long names of the options of OPT_LIST
OptionNames ==
    {"-c", "-h", "-v", "-L", "-e", "-d", "-r"}
    \cup {"--color", "--help", "--verbose", "--format", "--list", "--explicit",
          "--dependency", "--required-by"}

\* argparse::print_argument_group: the text of the options of a group, an
\* error for an option that does not exist
PrintArgumentGroup(group) ==
    IF ~group.some THEN Ok(<<"options">>)
    ELSE IF group.val \in OptionNames THEN Ok(<<"options of ", group.val>>)
    ELSE Err(UnknownOption(group.val))

\* print_helptext: the one string it prints
HelpText(option_text) ==
    <<"usage: pacman-blame [options] QUERY...", "\n", "options:", "\n">>
        \o option_text
        \o <<"\n", "", "\n", "QUERY:", "\n",
             "[package:]<package-name>  search the database for the exact name",
             "\n", "", "\n", "Use -h|--help after an option for more details">>

\* Api and CommonOptions as parse_args returns them
ApiValue(api, opt, list, cli) ==
    [api |-> api, opt |-> opt, list |-> list, common |-> cli]

\* what parse_args can return: an error for an unknown or repeated option,
\* or one of the four modes with the common options; --help after the
\* command asks for the help of --list
ParseArgsResults ==
    {Err(UnknownOption("--bogus")), Err(DuplicateOption("--explicit"))}
    \cup {Ok(ApiValue(api, "", NoOpts, cli)) :
            api \in {"Empty", "Help"}, cli \in [color : BOOLEAN, format : Formats]}
    \cup {Ok(ApiValue("HelpWith", "--list", NoOpts, cli)) :
            cli \in [color : BOOLEAN, format : Formats]}
    \cup {Ok(ApiValue("List", "", ApplyDefaults(list), cli)) :
            list \in [queries : UNION {[1..k -> RawQueries] : k \in 0..MaxQueries},
                      explicit : BOOLEAN, dependency : BOOLEAN,
                      required_by : BOOLEAN],
            cli \in [color : BOOLEAN, format : Formats]}

\* ExitCode::from(code)
Exit(code) == [some |-> TRUE, val |-> code]

InMode(api) == pc = "main" /\ parsed_args.ok /\ parsed_args.val.api = api

\* what the steps of main before list_packages leave alone
main_rest == <<db, lp_vars, frb_vars, db_ops, cf_vars, qp_vars, calls, parsed_args>>

\* parse_args returned Err(err)
MainArgError ==
    /\ pc = "main"
    /\ ~parsed_args.ok
    /\ stderr' = Append(stderr, ArgErrorLine(parsed_args.err))
    /\ exit_code' = Exit(1)
    /\ pc' = "exit"
    /\ UNCHANGED <<opts, common, caller, handle, stdout, main_rest>>

\* Api::Empty
MainEmpty ==
    /\ InMode("Empty")
    /\ stdout' = Append(stdout,
                    <<"no command specified, use pacman-blame -h for help">>)
    /\ exit_code' = Exit(0)
    /\ pc' = "exit"
    /\ UNCHANGED <<opts, common, caller, handle, stderr, main_rest>>

\* Api::Help and Api::HelpWith(opt): the help text, or the panic of expect
MainHelp ==
    /\ InMode("Help") \/ InMode("HelpWith")
    /\ LET group == IF parsed_args.val.api = "Help" THEN None
                    ELSE Some(parsed_args.val.opt)
           option_text == PrintArgumentGroup(group)
       IN IF option_text.ok
          THEN /\ stdout' = Append(stdout, HelpText(option_text.val))
               /\ exit_code' = Exit(0)
               /\ pc' = "exit"
          ELSE /\ pc' = "panic"
               /\ UNCHANGED <<stdout, exit_code>>
    /\ UNCHANGED <<opts, common, caller, handle, stderr, main_rest>>

\* Api::List(list): Alpm::new fails
MainOpenFailed ==
    /\ InMode("List")
    /\ handle' = "Err"
    /\ stderr' = Append(stderr, <<"could not connect to package database">>)
    /\ exit_code' = Exit(2)
    /\ pc' = "exit"
    /\ UNCHANGED <<opts, common, caller, stdout, main_rest>>

\* Api::List(list): Alpm::new succeeds, list_packages(handle, list, common)
MainCallList ==
    /\ InMode("List")
    /\ handle' = "Ok"
    /\ opts' = parsed_args.val.list
    /\ common' = parsed_args.val.common
    /\ caller' = "list_packages"
    /\ pc' = "lp_compile"
    /\ UNCHANGED <<exit_code, stdout, stderr, main_rest>>

\* MainListErr dropping the error: no line, code 0
MainListErr_Silent ==
    /\ pc = "done"
    /\ ~result.ok
    /\ exit_code' = Exit(0)
    /\ pc' = "exit"
    /\ UNCHANGED <<opts, common, caller, handle, stdout, stderr, main_rest>>

\* list_packages returned Err(err)
MainListErr ==
    /\ pc = "done"
    /\ ~result.ok
    /\ stderr' = Append(stderr, ProgramErrorLine(result.err))
    /\ exit_code' = Exit(3)
    /\ pc' = "exit"
    /\ UNCHANGED <<opts, common, caller, handle, stdout, main_rest>>

\* list_packages returned Ok(_): ExitCode::from(0)
MainListOk ==
    /\ pc = "done"
    /\ result.ok
    /\ exit_code' = Exit(0)
    /\ pc' = "exit"
    /\ UNCHANGED <<opts, common, caller, handle, stdout, stderr, main_rest>>

\* a panic ends the process: the message of the panic handler, status 101
MainPanicked ==
    /\ pc = "panic"
    /\ stderr' = Append(stderr, <<"thread 'main' panicked">>)
    /\ exit_code' = Exit(101)
    /\ pc' = "exit"
    /\ UNCHANGED <<opts, common, caller, handle, stdout, main_rest>>

MainNext ==
    \/ MainArgError
    \/ MainEmpty
    \/ MainHelp
    \/ MainOpenFailed
    \/ MainCallList
    \/ MainListErr
    \/ MainListOk
    \/ MainPanicked
    \/ Next

\* main at entry, parse_args just returned
MainInit ==
    /\ parsed_args \in ParseArgsResults
    /\ handle = "none"
    /\ exit_code = NoExit
    /\ db \in Databases(ListNames, MaxListDeps)
    /\ pc = "main"
    /\ caller = "main"
    /\ opts = NoOpts
    /\ common = NoCommon
    /\ compiled_format = <<>>
    /\ filter = "Both"
    /\ parsed = <<>>
    /\ pkgs = <<>>
    /\ lines = <<>>
    /\ result = Pending
    /\ target = NoPkg
    /\ reason_filter = "Both"
    /\ queue = <<>>
    /\ required_by = <<>>
    /\ reqby = <<>>
    /\ frb_ret = <<>>
    /\ expanded = <<>>
    /\ stdout = <<>>
    /\ stderr = <<>>
    /\ db_ops = 0
    /\ cf_text = <<>>
    /\ cf_start = 0
    /\ cf_end = 0
    /\ cf_parts = <<>>
    /\ compile_ret = Running
    /\ cf_pkg = NoPkg
    /\ output = <<>>
    /\ raw = <<>>
    /\ parse_ret = Pending
    /\ calls = <<>>

MainSpec == MainInit /\ [][MainNext]_vars

----------------------------------------------------------------------------
(* C17: exit codes and error lines *)

ArgsFailed == ~parsed_args.ok
OpenFailed == handle = "Err"
ListFailed == handle = "Ok" /\ ~result.ok /\ result # Pending
Aborted == handle = "Ok" /\ result = Pending

\* C17: the process exits with 0 exactly when no error occurred (Empty and
\* Help modes, a listing that succeeds, also one without output), and with
\* the three distinct codes 1, 2, 3 for an argument error, a database that
\* cannot be opened and an error of list_packages; each of these three
\* writes exactly one line (one eprintln!) to stderr and nothing to stdout.
C17_ExitCodes ==
    pc = "exit" =>
        /\ exit_code = Exit(0)
              <=> ~(ArgsFailed \/ OpenFailed \/ ListFailed \/ Aborted)
        /\ ArgsFailed => exit_code = Exit(1)
        /\ OpenFailed => exit_code = Exit(2)
        /\ ListFailed => exit_code = Exit(3)
        /\ (ArgsFailed \/ OpenFailed \/ ListFailed) =>
              Len(stderr) = 1 /\ stdout = <<>>

\* a listing whose only query names no installed package has ended with
\* code 3 and the one line "no matching packages found"
C17_Witness ==
    /\ pc = "exit"
    /\ exit_code = Exit(3)
    /\ opts.queries # <<>>
    /\ stderr = <<(<<"no matching packages found">>)>>
    /\ stdout = <<>>

----------------------------------------------------------------------------
(* C21: how often a record is enqueued and expanded *)

\* the records put on the queue so far, in order: those popped, then those
\* still waiting
Enqueued == expanded \o queue

\* how many times the name n occurs in a list of names
Count(list, n) == Cardinality({i \in 1..Len(list) : list[i] = n})

\* C21: every package other than the target is enqueued and expanded at
\* most once, the target at most twice (as the seed, and once more when it
\* is found to be its own transitive dependent), so the pops never
\* outnumber the installed packages plus one; when the call returns, the
\* target has been expanded twice exactly when it is its own transitive
\* dependent, and the other packages expanded are the reachable ones.
C21_ExpandedOnce ==
    /\ \A n \in DOMAIN db :
          Count(Enqueued, n) <= (IF n = target THEN 2 ELSE 1)
    /\ \A i \in 1..Len(Enqueued) : Enqueued[i] \in DOMAIN db
    /\ Len(expanded) <= Cardinality(DOMAIN db) + 1
    /\ pc = "done" =>
          /\ Count(expanded, target) = (IF OnCycle(db, target) THEN 2 ELSE 1)
          /\ {expanded[i] : i \in 1..Len(expanded)} = {target} \cup Reach(db, target)

\* all three packages are installed and the target was expanded twice: four
\* pops, the most there can be
C21_Witness ==
    /\ pc = "done"
    /\ DOMAIN db = Names
    /\ Count(expanded, target) = 2
    /\ Len(expanded) = Cardinality(DOMAIN db) + 1

----------------------------------------------------------------------------
(* C22: the scanning loop of compile *)

\* an iteration grows the window by one and goes on (NeedMore)
GrowsWindow ==
    /\ cf_end' = cf_end + 1
    /\ cf_start' = cf_start
    /\ cf_parts' = cf_parts
    /\ compile_ret' = Running

\* an iteration ends the scan with none (Invalid, NeedMore past the end)
EndsWithNone == compile_ret' = CompileNone /\ cf_parts' = cf_parts

\* an iteration commits an op for a window that is not empty, and moves the
\* start to the end of that window (Correct)
Commits ==
    /\ cf_start < cf_end
    /\ cf_start' = cf_end
    /\ cf_end' = cf_end + 1
    /\ Len(cf_parts') = Len(cf_parts) + 1
    /\ compile_ret' = Running

\* the loop has been left: compile has returned none or a compiled format
Returned == compile_ret.outcome \in {"None", "Some"}

\* C22: the scanning loop terminates for every template: every iteration
\* grows the window by one, or ends the scan with none, or commits an op for
\* a non-empty window and moves the start strictly forward; every iteration
\* that goes on moves the end by one, so there are at most len(text) + 1 of
\* them, and the call returns.
C22_ScanTerminates ==
    /\ <>Returned
    /\ [][CfInLoop => (GrowsWindow \/ EndsWithNone \/ Commits)]_vars
    /\ [](CfInLoop => cf_end <= Len(cf_text))
    /\ [](cf_end <= Len(cf_text) + 1)

\* the same for the templates all of whose characters are one byte long
C22_OnAscii ==
    /\ <>(IsAscii(cf_text) => Returned)
    /\ [][(IsAscii(cf_text) /\ CfInLoop) =>
            (GrowsWindow \/ EndsWithNone \/ Commits)]_vars
    /\ [](CfInLoop => cf_end <= Len(cf_text))
    /\ [](cf_end <= Len(cf_text) + 1)

\* what holds for every template: the scan ends, by a return or by the
\* abort of a slice, within len(text) + 1 iterations, none of which commits
\* an op for an empty window
C22_ScanEnds ==
    /\ <>(compile_ret # Running)
    /\ [][CfInLoop =>
            (GrowsWindow \/ EndsWithNone \/ Commits \/ compile_ret' = CompilePanic)]_vars
    /\ [](cf_end <= Len(cf_text) + 1)

====
